---- MODULE Spec2Model ----
(***************************************************************************)
(* The list_workflow_templates pagers of the Dataproc client                *)
(* (google/cloud/dataproc_v1/services/workflow_template_service/pagers.py): *)
(* ListWorkflowTemplatesPager and ListWorkflowTemplatesAsyncPager.          *)
(*                                                                         *)
(* A pager holds the call method, its own copy of the request, the current  *)
(* response and the metadata.  `pages` is a generator over the responses,   *)
(* __iter__/__aiter__ a generator over the templates of those responses.    *)
(* The call method is the scripted one of the unit tests (a mock with a     *)
(* side_effect sequence): its k-th invocation produces the k-th outcome of  *)
(* the script, and an exhausted script raises StopIteration (a Mock) or     *)
(* StopAsyncIteration (an AsyncMock).                                       *)
(***************************************************************************)
EXTENDS Integers, Sequences, FiniteSets, TLC

\* ---------------------------------------------------------------- bounds

\* Longest scripted sequence of call outcomes (the initial response is given
\* to the constructor and is not part of the script).
MaxCalls == 2

\* Most templates held by one response.
MaxItems == 2
\* Iterations started on one pager when it is iterated more than once.
MaxIters == 2

\* ---------------------------------------------------------------- values

\* Continuation tokens; the empty string means "no further page".
Tokens == {"", "abc", "def"}

\* What a failing call raises: an error of the transport, or one of the two
\* exceptions of the iteration protocol, which a generator frame treats
\* specially.
Errors == {"ServiceUnavailable", "StopIteration", "StopAsyncIteration"}

Variants == {"sync", "async"}

\* The metadata argument of the constructor: () by default.
Metadatas == {<<>>, <<<<"k", "v">>>>}

\* The request the caller passes to the constructor.
CallerRequest == [parent |-> "projects/p", page_size |-> 2, page_token |-> "p0"]

\* The templates of the response at position k of the chain (0: the initial
\* response, k: the outcome of the k-th call): n distinct opaque items.
Templates(k, n) == [j \in 1..n |-> <<k, j>>]

\* ListWorkflowTemplatesResponse: the two fields the pager reads.
Response(k, tok, n) == [next_page_token |-> tok, templates |-> Templates(k, n)]

\* One outcome of the call method: a response, or a raised error.
Returns(k, tok, n) ==
    [ok |-> TRUE, next_page_token |-> tok, templates |-> Templates(k, n), error |-> ""]

Raises(e) ==
    [ok |-> FALSE, next_page_token |-> "", templates |-> <<>>, error |-> e]

OutcomesAt(k) ==
    {Returns(k, tok, n) : tok \in Tokens, n \in 0..MaxItems} \cup {Raises(e) : e \in Errors}

\* All scripts of at most MaxCalls outcomes.
Scripts ==
    UNION {{s \in [1..len -> UNION {OutcomesAt(k) : k \in 1..len}] :
                \A k \in 1..len : s[k] \in OutcomesAt(k)} : len \in 0..MaxCalls}

\* The response object an outcome returns.
Resp(o) == [next_page_token |-> o.next_page_token, templates |-> o.templates]

\* ----------------------------------------------------------------- state

VARIABLES
    variant,        \* which class: ListWorkflowTemplatesPager or ...AsyncPager
    copies,         \* whether the request type's constructor returns a new object
    script,         \* the call method's side_effect: outcome of the k-th call
    caller_request, \* the request object the caller passed to __init__
    init_response,  \* the response object the caller passed to __init__
    request,        \* self._request
    response,       \* self._response
    metadata,       \* self._metadata
    calls,          \* the invocations of self._method so far, in order
    inflight,       \* the numbers of the calls that are awaited (async)
    its             \* the generators created from the pager, in creation order

vars == <<variant, copies, script, caller_request, init_response, request, response,
          metadata, calls, inflight, its>>

\* What a mock raises when its side_effect sequence is used up: the end of
\* the iterator over it, StopIteration from a Mock (the sync tests) and
\* StopAsyncIteration from an AsyncMock (the async tests).
Exhausted(v) == IF v = "sync" THEN "StopIteration" ELSE "StopAsyncIteration"

\* The outcome of the k-th invocation of the call method of a pager of
\* class v.
OutcomeOf(v, k) == IF k \in 1..Len(script) THEN script[k] ELSE Raises(Exhausted(v))

\* The outcome of the k-th invocation of the call method.
Outcome(k) == OutcomeOf(variant, k)

\* A generator that has not run yet.  kind: "pages" (the pages property) or
\* "items" (__iter__/__aiter__).  pc: "start" (created, not started),
\* "yielded" (suspended at a yield), "fetching" (async: suspended at the
\* await of the call), "done" (returned or raised).  page/idx: the local
\* page of the items generator and how many of its templates were yielded.
\* out: the values delivered to the consumer; seen: the pages the pages
\* generator produced; status: what the consumer's last advance got;
\* err: the exception that ended the generator, if any.  adv: how often the
\* consumer advanced the generator; ncalls: the calls the generator made;
\* susp: how often it suspended the consuming task at an await.
NewGen(kind) ==
    [kind |-> kind, pc |-> "start", page |-> [next_page_token |-> "", templates |-> <<>>],
     idx |-> 0, callno |-> 0, out |-> <<>>, seen |-> <<>>, status |-> "fresh", err |-> "",
     adv |-> 0, ncalls |-> 0, susp |-> 0]

\* __init__: self._request is what the request type's constructor returns
\* for the caller's request (a copy with the proto-plus message type, the
\* argument itself with a type that returns it); the response and the
\* metadata are kept.
Init ==
    /\ variant \in Variants
    /\ copies \in BOOLEAN
    /\ script \in Scripts
    /\ caller_request = CallerRequest
    /\ init_response \in {Response(0, tok, n) : tok \in Tokens, n \in 0..MaxItems}
    /\ request = [f \in DOMAIN caller_request |-> caller_request[f]]
    /\ response = init_response
    /\ metadata \in Metadatas
    /\ calls = <<>>
    /\ inflight = {}
    /\ its = <<>>

\* ------------------------------------------------------------ generators

\* An exception leaving the generator frame of a pager of class v: Python
\* replaces StopIteration by RuntimeError in a generator and in an async
\* generator, and StopAsyncIteration in an async generator only; any other
\* exception propagates as it is.
Propagate(v, e) ==
    IF e = "StopIteration" \/ (v = "async" /\ e = "StopAsyncIteration")
    THEN "RuntimeError" ELSE e

\* A context: the pager's fields and the running generator.  free: how many
\* of the calls awaited next complete without suspending the task (the
\* awaitable of a mock does, that of a transport waiting for the network
\* does not).
CtxFree(g, n) ==
    [variant |-> variant, request |-> request, response |-> response, calls |-> calls,
     inflight |-> inflight, it |-> g, free |-> n]

Ctx(g) == CtxFree(g, 0)

\* Mutant of Yield: the async generator awaits before it hands the value over.
Yield_Awaits(c, v) ==
    [c EXCEPT !.it.out = Append(@, v), !.it.pc = "yielded", !.it.status = "value",
              !.it.susp = IF c.variant = "async" THEN @ + 1 ELSE @]

\* The generator hands v to the consumer and suspends at the yield.
Yield(c, v) ==
    [c EXCEPT !.it.out = Append(@, v), !.it.pc = "yielded", !.it.status = "value"]

\* The generator returns: the consumer gets the end of the sequence.
Return(c) == [c EXCEPT !.it.pc = "done", !.it.status = "end"]

\* Mutant of Raise: the exception is swallowed and the sequence just ends.
Raise_Suppress(c, e) == [c EXCEPT !.it.pc = "done", !.it.status = "end"]

\* The generator raises e: it is finished and the consumer gets the error.
Raise(c, e) ==
    [c EXCEPT !.it.pc = "done", !.it.status = "error", !.it.err = Propagate(c.variant, e)]

\* The identity of the request object the pager holds in self._request, made
\* by the constructor; k > 0 would be a copy made for the k-th call.
HeldObject == 0

\* The identity of the request object the caller passed to the constructor.
CallerObject == -1

\* Mutant of RequestObject: the constructor keeps the caller's object.
RequestObject_NoCopy(cp) == CallerObject

\* The object self._request refers to: what ListWorkflowTemplatesRequest(request)
\* returned, a new object if the type's constructor copies (cp), else the
\* caller's request itself.
RequestObject(cp) == IF cp THEN HeldObject ELSE CallerObject

\* Mutant of Invoke: the call is made with a fresh copy of the request.
Invoke_Copy(c) ==
    [c EXCEPT !.calls = Append(@, [obj |-> Len(c.calls) + 1, request |-> c.request,
                                   metadata |-> metadata]),
              !.it.ncalls = @ + 1]

\* Mutant of Invoke: the call is made without the metadata.
Invoke_NoMetadata(c) ==
    [c EXCEPT !.calls = Append(@, [obj |-> RequestObject(copies), request |-> c.request,
                                   metadata |-> <<>>]),
              !.it.ncalls = @ + 1]

\* self._method(self._request, metadata=self._metadata) is invoked.  The
\* argument is the object self._request refers to, whose fields at the time
\* of the call are recorded with it.
Invoke(c) ==
    [c EXCEPT !.calls = Append(@, [obj |-> RequestObject(copies), request |-> c.request,
                                   metadata |-> metadata]),
              !.it.ncalls = @ + 1]

\* Only({e : c \in {x}}) is e with c standing for the value of x, worked out
\* once however often e names c.
Only(S) == CHOOSE v \in S : TRUE

RECURSIVE GotPage(_), ItemsLoop(_), Fetch(_), PagesResume(_), AfterCall(_, _)

\* `yield self._response` of pages: a pages generator hands the page to the
\* consumer; in an items generator it becomes the loop's page.
GotPage(ctx) ==
    Only({IF c.it.kind = "pages"
          THEN Yield(c, c.response)
          ELSE ItemsLoop([c EXCEPT !.it.page = c.response, !.it.idx = 0])
          : c \in {[ctx EXCEPT !.it.seen = Append(@, ctx.response)]}})

\* Mutant of ItemsLoop: a page without templates ends the iteration.
ItemsLoop_StopOnEmpty(ctx) ==
    Only({IF c.it.idx < Len(c.it.page.templates)
          THEN Yield([c EXCEPT !.it.idx = @ + 1], c.it.page.templates[c.it.idx + 1])
          ELSE IF Len(c.it.page.templates) = 0 THEN Return(c) ELSE PagesResume(c)
          : c \in {ctx}})

\* `yield from page.templates`, then the next page.
ItemsLoop(ctx) ==
    Only({IF c.it.idx < Len(c.it.page.templates)
          THEN Yield([c EXCEPT !.it.idx = @ + 1], c.it.page.templates[c.it.idx + 1])
          ELSE PagesResume(c)
          : c \in {ctx}})

\* The rest of the loop body once the request is ready: the call is made,
\* and awaited (async) or its outcome taken at once (sync).
\* Mutant of Fetch: the async class starts the call for the page after the
\* next one as well, without awaiting the first.
Fetch_Prefetch(ctx) ==
    Only({IF c.variant = "sync"
          THEN AfterCall(c, OutcomeOf(c.variant, Len(c.calls)))
          ELSE Only({[d EXCEPT !.it.pc = "fetching", !.it.status = "waiting",
                               !.it.callno = Len(c.calls), !.it.susp = @ + 1,
                               !.inflight = @ \cup {Len(c.calls), Len(d.calls)}]
                     : d \in {Invoke(c)}})
          : c \in {Invoke(ctx)}})

\* `await self._method(...)` suspends the task only if the awaitable does.
Fetch(ctx) ==
    Only({IF c.variant = "sync"
          THEN AfterCall(c, OutcomeOf(c.variant, Len(c.calls)))
          ELSE IF c.free > 0
          THEN AfterCall([c EXCEPT !.free = @ - 1, !.it.callno = Len(c.calls)],
                         OutcomeOf(c.variant, Len(c.calls)))
          ELSE [c EXCEPT !.it.pc = "fetching", !.it.status = "waiting",
                         !.it.callno = Len(c.calls), !.it.susp = @ + 1,
                         !.inflight = @ \cup {Len(c.calls)}]
          : c \in {Invoke(ctx)}})

\* Mutant of PagesResume: the token is not written to the request.
PagesResume_NoToken(ctx) ==
    Only({IF c.response.next_page_token = "" THEN Return(c) ELSE Fetch(c)
          : c \in {ctx}})

\* Mutant of PagesResume: the loop does not test the token.
PagesResume_NoCheck(ctx) ==
    Only({Fetch([c EXCEPT !.request.page_token = c.response.next_page_token])
          : c \in {ctx}})

\* Mutant of PagesResume: the loop tests the request's token.
PagesResume_ReqToken(ctx) ==
    Only({IF c.request.page_token = ""
          THEN Return(c)
          ELSE Fetch([c EXCEPT !.request.page_token = c.response.next_page_token])
          : c \in {ctx}})

\* Mutant of PagesResume: the loop goes by the page this generator got last.
PagesResume_OwnPage(ctx) ==
    Only({IF c.it.seen[Len(c.it.seen)].next_page_token = ""
          THEN Return(c)
          ELSE Fetch([c EXCEPT !.request.page_token =
                                    c.it.seen[Len(c.it.seen)].next_page_token])
          : c \in {ctx}})

\* Mutant of PagesResume: the loop ends at a token it has sent before.
PagesResume_StopOnRepeat(ctx) ==
    Only({IF c.response.next_page_token = ""
             \/ \E k \in 1..Len(c.calls) :
                    c.calls[k].request.page_token = c.response.next_page_token
          THEN Return(c)
          ELSE Fetch([c EXCEPT !.request.page_token = c.response.next_page_token])
          : c \in {ctx}})

\* The pages generator is resumed after a yield: the while loop.
\* Mutant of PagesResume: the request is built anew from the token alone.
PagesResume_Rebuild(ctx) ==
    Only({IF c.response.next_page_token # ""
          THEN Fetch([c EXCEPT !.request = [parent |-> "", page_size |-> 0,
                                            page_token |-> c.response.next_page_token]])
          ELSE Return(c)
          : c \in {ctx}})

\* Mutant of PagesResume: the async class does not write the token.
PagesResume_AsyncNoToken(ctx) ==
    Only({IF c.response.next_page_token # ""
          THEN Fetch(IF c.variant = "async" THEN c
                     ELSE [c EXCEPT !.request.page_token = c.response.next_page_token])
          ELSE Return(c)
          : c \in {ctx}})

PagesResume(ctx) ==
    Only({IF c.response.next_page_token = ""
          THEN Return(c)
          ELSE Fetch([c EXCEPT !.request.page_token = c.response.next_page_token])
          : c \in {ctx}})

\* Mutant of AfterCall: a response without a token ends the loop unyielded.
AfterCall_DropLast(ctx, o) ==
    Only({IF o.ok
          THEN IF o.next_page_token = ""
               THEN Return([c EXCEPT !.response = Resp(o)])
               ELSE GotPage([c EXCEPT !.response = Resp(o)])
          ELSE Raise(c, o.error)
          : c \in {ctx}})

\* Mutant of AfterCall: a failed call is taken for an (empty) page.
AfterCall_ErrPage(ctx, o) ==
    Only({GotPage([c EXCEPT !.response = Resp(o)]) : c \in {ctx}})

\* Mutant of AfterCall: the new response is not stored in self._response.
AfterCall_NoStore(ctx, o) ==
    Only({IF o.ok THEN GotPage(c) ELSE Raise(c, o.error) : c \in {ctx}})

\* Mutant of AfterCall: a failed call clears self._response before it raises.
AfterCall_ClearOnError(ctx, o) ==
    Only({IF o.ok
          THEN GotPage([c EXCEPT !.response = Resp(o)])
          ELSE Raise([c EXCEPT !.response = Resp(o)], o.error)
          : c \in {ctx}})

\* Mutant of AfterCall: a failed call takes its token out of the request.
AfterCall_ResetToken(ctx, o) ==
    Only({IF o.ok
          THEN GotPage([c EXCEPT !.response = Resp(o)])
          ELSE Raise([c EXCEPT !.request.page_token = ""], o.error)
          : c \in {ctx}})

\* The call has produced its outcome.
AfterCall(ctx, o) ==
    Only({IF o.ok
          THEN GotPage([c EXCEPT !.response = Resp(o)])
          ELSE Raise(c, o.error)
          : c \in {ctx}})

\* Mutant of Resume: the generator fetches before its first yield.
Resume_SkipFirst(c) ==
    CASE c.it.pc = "start" -> PagesResume(c)
      [] c.it.pc = "yielded" /\ c.it.kind = "pages" -> PagesResume(c)
      [] c.it.pc = "yielded" /\ c.it.kind = "items" -> ItemsLoop(c)
      [] OTHER -> Return(c)

\* Mutant of Resume: a generator that raised tries its fetch again when the
\* consumer advances it once more.
Resume_RetryAfterError(c) ==
    CASE c.it.pc = "start" -> GotPage(c)
      [] c.it.pc = "yielded" /\ c.it.kind = "pages" -> PagesResume(c)
      [] c.it.pc = "yielded" /\ c.it.kind = "items" -> ItemsLoop(c)
      [] c.it.pc = "done" /\ c.it.err # "" -> PagesResume(c)
      [] OTHER -> Return(c)

\* Mutant of Resume: a new iteration rewinds to the constructor's response.
Resume_FromInitial(c) ==
    CASE c.it.pc = "start" -> GotPage([c EXCEPT !.response = init_response])
      [] c.it.pc = "yielded" /\ c.it.kind = "pages" -> PagesResume(c)
      [] c.it.pc = "yielded" /\ c.it.kind = "items" -> ItemsLoop(c)
      [] OTHER -> Return(c)

\* next()/anext() of generator g.
Resume(c) ==
    CASE c.it.pc = "start" -> GotPage(c)
      [] c.it.pc = "yielded" /\ c.it.kind = "pages" -> PagesResume(c)
      [] c.it.pc = "yielded" /\ c.it.kind = "items" -> ItemsLoop(c)
      [] OTHER -> Return(c)

\* Mutant of Cancelled: what had arrived of the response is stored.
Cancelled_Partial(c) ==
    [c EXCEPT !.it.pc = "done", !.it.status = "error", !.it.err = "CancelledError",
              !.response = [next_page_token |-> "", templates |-> <<>>]]

\* The consuming task is cancelled while the generator awaits its call:
\* CancelledError is raised at the await and leaves the generator, which is
\* finished; the assignment to self._response is never reached.
Cancelled(c) ==
    [c EXCEPT !.it.pc = "done", !.it.status = "error", !.it.err = "CancelledError"]

\* The awaited call of the generator is awaited no more.
Landed(c) == [c EXCEPT !.inflight = @ \ {c.it.callno}]

\* The consumer's next()/anext() enters the generator.
Entered(c) == [c EXCEPT !.it.adv = @ + 1]

\* The pager's fields and generator i after the generator ran to c.  A write
\* to self._request is a write to the caller's request exactly if the two
\* are one object.
Commit(i, c) ==
    /\ request' = c.request
    /\ response' = c.response
    /\ calls' = c.calls
    /\ inflight' = c.inflight
    /\ its' = [its EXCEPT ![i] = c.it]
    /\ caller_request' = IF RequestObject(copies) = CallerObject THEN c.request
                        ELSE caller_request
    /\ UNCHANGED <<variant, copies, script, init_response, metadata>>

\* The methods the pager's class defines: __iter__ in the sync class,
\* __aiter__ in the async class.
OwnMethods ==
    {"__init__", "__getattr__", "__repr__"}
        \cup (IF variant = "sync" THEN {"__iter__"} ELSE {"__aiter__"})

\* The methods the class inherits from `object`, its only base (line 23 /
\* line 85: a class statement without bases).
ObjectMethods ==
    {"__delattr__", "__dir__", "__eq__", "__format__", "__ge__", "__getattribute__",
     "__getstate__", "__gt__", "__hash__", "__init_subclass__", "__le__", "__lt__",
     "__ne__", "__new__", "__reduce__", "__reduce_ex__", "__setattr__", "__sizeof__",
     "__str__", "__subclasshook__"}

\* The data attributes an instance of a class without __slots__ has.
ObjectAttributes == {"__class__", "__dict__", "__doc__", "__module__", "__weakref__"}

\* The attributes __init__ sets.
InstanceAttributes == {"_method", "_request", "_response", "_metadata"}

\* The names both classes have besides their methods: what `object` gives,
\* what __init__ sets, and the `pages` property.
CommonNames == ObjectMethods \cup ObjectAttributes \cup InstanceAttributes \cup {"pages"}

\* The pager's own interface: every name that normal attribute lookup finds
\* on the instance or on its class.  Only for a name outside it does Python
\* call __getattr__.
Interface == OwnMethods \cup CommonNames

\* Names of neither class's interface: the fields of a response, dunder names
\* that neither a pager nor a response has, and a name nobody has.
OtherNames == {"next_page_token", "templates", "__len__", "__name__", "nosuch"}

\* What normal lookup returns for a name of the interface: a bound method,
\* an attribute of the instance (the script stands for the call method), a
\* new generator for the `pages` property, the class, the instance
\* dictionary, the class docstring, the module.
Lookup(name) ==
    CASE name \in OwnMethods \cup ObjectMethods -> "<method>"
      [] name = "_method" -> script
      [] name = "_request" -> request
      [] name = "_response" -> response
      [] name = "_metadata" -> metadata
      [] name = "pages" -> NewGen("pages")
      [] name = "__class__" -> IF variant = "sync" THEN "ListWorkflowTemplatesPager"
                                                   ELSE "ListWorkflowTemplatesAsyncPager"
      [] name = "__dict__" -> [_method |-> script, _request |-> request,
                               _response |-> response, _metadata |-> metadata]
      [] name = "__doc__" -> "<docstring>"
      [] name = "__module__" ->
            "google.cloud.dataproc_v1.services.workflow_template_service.pagers"
      [] name = "__weakref__" -> "None"

\* Mutant of GetAttr: the lookup goes to the response given to __init__.
GetAttr_Initial(name) ==
    IF name \in Interface THEN Lookup(name)
    ELSE IF name \in DOMAIN init_response THEN init_response[name]
    ELSE "AttributeError"

\* Attribute lookup on the pager: normal lookup for a name of the interface,
\* else __getattr__, which reads the attribute of self._response (and raises
\* AttributeError when the response has none of that name).
GetAttr(name) ==
    IF name \in Interface THEN Lookup(name)
    ELSE IF name \in DOMAIN response THEN response[name]
    ELSE "AttributeError"

\* --------------------------------------------------------------- actions

\* More calls than one run of a generator can make.
MaxFree == MaxCalls + 2

\* How many of the calls a run of a generator makes may complete at once:
\* any number up to the calls that the run makes when none of them suspends
\* (c is where that run gets to).  The sync class awaits nothing.
FreeChoices(c) == IF variant = "sync" THEN {0} ELSE 0..(Len(c.calls) - Len(calls))

\* The consumer reads the pages property: a new generator, nothing runs.
NewPagesIter ==
    /\ its' = Append(its, NewGen("pages"))
    /\ UNCHANGED <<variant, copies, script, caller_request, init_response, request, response,
                   metadata, calls, inflight>>

\* The consumer calls iter()/aiter() on the pager: a new generator.
NewItemsIter ==
    /\ its' = Append(its, NewGen("items"))
    /\ UNCHANGED <<variant, copies, script, caller_request, init_response, request, response,
                   metadata, calls, inflight>>

\* The generator is suspended at a yield, not started, or has just raised:
\* the consumer's next()/anext() can enter it.
CanAdvance(g) == g.pc \in {"start", "yielded"} \/ (g.pc = "done" /\ g.status = "error")

\* The consumer advances generator i, which runs to its next yield, to its
\* end, to an error or (async) to the await of a call.  A generator that
\* ended with an error is finished: advancing it again gets the end.
Advance(i) ==
    /\ i \in DOMAIN its
    /\ CanAdvance(its[i])
    /\ \E n \in FreeChoices(Resume(Entered(CtxFree(its[i], MaxFree)))) :
          \E c \in {Resume(Entered(CtxFree(its[i], n)))} : Commit(i, c)

\* Async: the awaited call of generator i resolves and the generator runs on.
Resolve(i) ==
    /\ i \in DOMAIN its
    /\ its[i].pc = "fetching"
    /\ \E n \in FreeChoices(AfterCall(Landed(CtxFree(its[i], MaxFree)),
                                        Outcome(its[i].callno))) :
          \E c \in {AfterCall(Landed(CtxFree(its[i], n)), Outcome(its[i].callno))} :
              Commit(i, c)

\* Async: the task consuming generator i is cancelled while the call is
\* pending.
Cancel(i) ==
    /\ i \in DOMAIN its
    /\ its[i].pc = "fetching"
    /\ \E c \in {Cancelled(Landed(Ctx(its[i])))} : Commit(i, c)

\* No iteration of the pager has been started yet.
Fresh == its = <<>>

\* A single consumer iterating a fresh pager once, by pages or by items.
Next ==
    \/ Fresh /\ NewPagesIter
    \/ Fresh /\ NewItemsIter
    \/ \E i \in DOMAIN its : Advance(i)
    \/ \E i \in DOMAIN its : Resolve(i)

Spec == Init /\ [][Next]_vars

\* The pagers the client makes: the request is a message of the proto-plus
\* type, whose constructor copies, and metadata is given.  A failure is the
\* last outcome of the script: the single iteration of such a pager ends at
\* the first failing call and uses no outcome after it.
PlainInit ==
    /\ Init
    /\ copies = TRUE
    /\ metadata # <<>>
    /\ \A k \in 1..(Len(script) - 1) : script[k].ok

PlainSpec == PlainInit /\ [][Next]_vars

\* Every iteration started so far is over: it ended, failed or was cancelled.
Idle == \A i \in DOMAIN its : its[i].pc = "done"

\* A single consumer iterating one pager again and again, each iteration
\* started when the one before is over; the task awaiting a call may be
\* cancelled.
SeqNext ==
    \/ Idle /\ Len(its) < MaxIters /\ NewPagesIter
    \/ Idle /\ Len(its) < MaxIters /\ NewItemsIter
    \/ \E i \in DOMAIN its : Advance(i)
    \/ \E i \in DOMAIN its : Resolve(i)
    \/ \E i \in DOMAIN its : Cancel(i)

\* Repeated iteration is followed for pagers without metadata whose pages
\* hold one template each and whose first response carries the token "abc"
\* or none.
SeqInit ==
    /\ Init
    /\ metadata = <<>>
    /\ init_response.next_page_token \in {"", "abc"}
    /\ Len(init_response.templates) = 1
    /\ \A k \in 1..Len(script) : script[k].ok => Len(script[k].templates) = 1

SeqSpec == SeqInit /\ [][SeqNext]_vars

\* Several iterators of one sync pager, created at any time and advanced in
\* any order on one thread: every advance runs to its yield or end before the
\* next one starts.
MixedNext ==
    \/ Len(its) < MaxIters /\ NewPagesIter
    \/ Len(its) < MaxIters /\ NewItemsIter
    \/ \E i \in DOMAIN its : Advance(i)

\* Interleaving is followed for sync pagers without metadata whose pages
\* hold one template each and whose call method, when it fails, raises
\* ServiceUnavailable.
MixedInit ==
    /\ SeqInit
    /\ variant = "sync"
    /\ \A k \in 1..Len(script) : script[k].error \in {"", "ServiceUnavailable"}

MixedSpec == MixedInit /\ [][MixedNext]_vars

\* The pagers over a chain that ends: every scripted call returns a response,
\* and the last response, and only the last, has an empty token.
EndingInit ==
    /\ Init
    /\ \A k \in 1..Len(script) : script[k].ok
    /\ \A k \in 1..Len(script) :
          (IF k = 1 THEN init_response ELSE Resp(script[k - 1])).next_page_token # ""
    /\ (IF script = <<>> THEN init_response
                         ELSE Resp(script[Len(script)])).next_page_token = ""

\* The consumer keeps advancing and every awaited call resolves.
FairSpec == EndingInit /\ [][Next]_vars /\ WF_vars(Next)

\* ------------------------------------------- the two classes side by side

\* A pager of class v right after construction, with a new generator.
Ctx0(v, kind) ==
    [variant |-> v, request |-> [f \in DOMAIN caller_request |-> caller_request[f]],
     response |-> init_response, calls |-> <<>>, inflight |-> {}, it |-> NewGen(kind),
     free |-> 0]

\* The awaited calls resolve until the generator hands a result to the
\* consumer.
RECURSIVE Settle(_)
Settle(ctx) ==
    Only({IF c.it.pc = "fetching"
          THEN Settle(AfterCall(Landed(c), OutcomeOf(c.variant, c.it.callno)))
          ELSE c
          : c \in {ctx}})

\* The consumer's n-th next() on a sync generator, or `await anext()` on an
\* async one, returned or raised.
RECURSIVE RunTo(_, _, _)
RunTo(v, kind, n) ==
    IF n = 0 THEN Ctx0(v, kind)
    ELSE Only({IF CanAdvance(c.it) THEN Settle(Resume(Entered(c))) ELSE c
               : c \in {RunTo(v, kind, n - 1)}})

\* What the consumer and the wrapped callable observe: the values delivered
\* and the pages produced, how the last advance ended (a value, the end, or
\* an error and which), and the calls made with their arguments.
Observe(c) ==
    [out |-> c.it.out, seen |-> c.it.seen, status |-> c.it.status, err |-> c.it.err,
     done |-> c.it.pc = "done", calls |-> c.calls, request |-> c.request,
     response |-> c.response]

\* ------------------------------------------------- the chain of responses

\* Page k of the chain: page 1 is the response given to the constructor,
\* page k + 1 what the k-th call returns.
ChainPage(k) == IF k = 1 THEN init_response ELSE Resp(Outcome(k - 1))

\* The k-th call has produced its outcome (it is not awaited any more).
Resolved(k) == \A i \in DOMAIN its : ~(its[i].pc = "fetching" /\ its[i].callno = k)

\* The k-th call was awaited by a generator whose task was cancelled at that
\* await: its scripted outcome never reached the pager.
WasCancelled(k) ==
    \E i \in DOMAIN its : its[i].err = "CancelledError" /\ its[i].callno = k

\* The k-th call returned a response to the pager, which assigned it to
\* self._response (line 74 / line 140).
Returned(k) == Outcome(k).ok /\ Resolved(k) /\ ~WasCancelled(k)

\* The length n of the chain when it ends: calls 1..n-1 return responses,
\* pages 1..n-1 carry a token and page n carries none.  0 when the script
\* fails or runs out before that.
ChainLen ==
    LET S == {n \in 1..(Len(script) + 1) :
                /\ \A k \in 1..(n - 1) : Outcome(k).ok /\ ChainPage(k).next_page_token # ""
                /\ ChainPage(n).next_page_token = ""}
    IN IF S = {} THEN 0 ELSE CHOOSE n \in S : TRUE

\* Pages 1..n of the chain, and their templates one after the other.
ChainPages(n) == [k \in 1..n |-> ChainPage(k)]

RECURSIVE Flatten(_)
Flatten(n) == IF n <= 0 THEN <<>> ELSE Flatten(n - 1) \o ChainPage(n).templates

RECURSIVE ItemCount(_)
ItemCount(n) == IF n <= 0 THEN 0 ELSE ItemCount(n - 1) + Len(ChainPage(n).templates)

\* The generator ended with the end of its sequence, no error.
EndedCleanly(g) == g.pc = "done" /\ g.err = ""

\* ---------------------------------------------------------------- claims

\* C1: token threading and order.  When a single consumer iterates `pages`,
\* the k-th call carries as page_token the next_page_token of the k-th
\* yielded page, the response of that call is the (k+1)-th yielded page, and
\* the yielded pages are the chain's pages in order, none skipped or repeated.
C1_TokenThreading ==
    \A i \in DOMAIN its : its[i].kind = "pages" =>
        /\ \A k \in 1..Len(its[i].out) : its[i].out[k] = ChainPage(k)
        /\ \A k \in 1..Len(calls) :
            /\ k <= Len(its[i].out)
            /\ calls[k].request.page_token = its[i].out[k].next_page_token
            /\ (Resolved(k) /\ Outcome(k).ok) =>
                   /\ Len(its[i].out) >= k + 1
                   /\ its[i].out[k + 1] = Resp(Outcome(k))

\* Two calls with different tokens were made and three pages yielded.
C1_Witness ==
    \E i \in DOMAIN its :
        /\ its[i].kind = "pages"
        /\ Len(calls) = 2
        /\ Len(its[i].out) = 3
        /\ calls[1].request.page_token # calls[2].request.page_token

\* C2: for a chain of n responses of which only the n-th has an empty token,
\* iterating `pages` of a fresh pager yields exactly the n pages, in chain
\* order, the last one having the empty token; before the end it has yielded
\* a prefix of them and it never ends with an error.
C2_ExactlyNPages ==
    \A i \in DOMAIN its : its[i].kind = "pages" =>
        /\ EndedCleanly(its[i]) =>
              /\ ChainLen > 0
              /\ its[i].out = ChainPages(ChainLen)
              /\ its[i].out[Len(its[i].out)].next_page_token = ""
        /\ ChainLen > 0 =>
              /\ its[i].err = ""
              /\ Len(its[i].out) <= ChainLen
              /\ (its[i].pc = "done" => Len(its[i].out) = ChainLen)

\* The iteration of a chain of three pages has ended.
C2_Witness ==
    \E i \in DOMAIN its :
        /\ its[i].kind = "pages"
        /\ EndedCleanly(its[i])
        /\ ChainLen = 3
        /\ Len(its[i].out) = 3

\* C3: iterating the pager yields the concatenation of the templates of the
\* successive pages, page order and order within a page preserved; at the
\* end the number of items is the sum of the page item counts, and a page
\* with no item but a token does not end the iteration.
C3_Flattened ==
    \A i \in DOMAIN its : its[i].kind = "items" =>
        /\ its[i].pc # "start" =>
              its[i].out = Flatten(Len(its[i].seen) - 1)
                               \o SubSeq(its[i].page.templates, 1, its[i].idx)
        /\ \A k \in 1..Len(its[i].seen) : its[i].seen[k] = ChainPage(k)
        /\ EndedCleanly(its[i]) =>
              /\ ChainLen > 0
              /\ its[i].out = Flatten(ChainLen)
              /\ Len(its[i].out) = ItemCount(ChainLen)

\* The items of a chain of three pages, the second of them empty, have all
\* been delivered.
C3_Witness ==
    \E i \in DOMAIN its :
        /\ its[i].kind = "items"
        /\ EndedCleanly(its[i])
        /\ ChainLen = 3
        /\ Len(ChainPage(1).templates) = 2
        /\ Len(ChainPage(2).templates) = 0
        /\ Len(ChainPage(3).templates) = 2
        /\ Len(its[i].out) = 4

\* C4: once the current response has an empty continuation token, no step of
\* any iteration invokes the call method again.
C4_NoCallAfterEmptyToken ==
    [][response.next_page_token = "" => calls' = calls]_vars

\* An iteration that made calls has ended on a response with an empty token.
C4_Witness ==
    \E i \in DOMAIN its :
        /\ EndedCleanly(its[i])
        /\ Len(calls) >= 1
        /\ response.next_page_token = ""

\* C5: if the call method fails on the N-th page fetch (the initial response
\* being fetch 1), the consumer has got exactly the pages of fetches 1..N-1
\* (or all their items), in order, when it gets the error; the failing call
\* is the last one made, and no page that was never fetched is delivered.
C5_FailureAfterFetchedPages ==
    \A i \in DOMAIN its :
        /\ \A k \in 1..Len(its[i].seen) :
              /\ its[i].seen[k] = ChainPage(k)
              /\ k > 1 => (k - 1 <= Len(calls) /\ Outcome(k - 1).ok)
        /\ its[i].err # "" =>
              LET f == Len(calls) IN
              /\ f >= 1
              /\ ~Outcome(f).ok
              /\ \A k \in 1..(f - 1) : Outcome(k).ok
              /\ its[i].seen = ChainPages(f)
              /\ its[i].kind = "pages" => its[i].out = ChainPages(f)
              /\ its[i].kind = "items" => its[i].out = Flatten(f)

\* The second call failed after the items of two pages were delivered.
C5_Witness ==
    \E i \in DOMAIN its :
        /\ its[i].kind = "items"
        /\ its[i].status = "error"
        /\ Len(calls) = 2
        /\ Len(its[i].out) >= 3

\* C6 as claimed: a failed call is the last call made (no retry) and the
\* consumer gets the very exception the call method raised.
C6_Original ==
    \A i \in DOMAIN its : \A k \in 1..Len(calls) :
        (~Outcome(k).ok /\ Resolved(k)) =>
            /\ k = Len(calls)
            /\ its[i].pc = "done"
            /\ its[i].err = Outcome(k).error

\* C6 (amended): a failed call is the last call made (no retry), the
\* iteration never ends cleanly after it, and the consumer gets the
\* exception the call method raised, except for the exceptions of the
\* iteration protocol: StopIteration reaches the consumer as RuntimeError in
\* both classes, StopAsyncIteration as RuntimeError in the async class and
\* as itself in the sync class.
C6_NoRetryNoSuppression ==
    \A i \in DOMAIN its : \A k \in 1..Len(calls) :
        (~Outcome(k).ok /\ Resolved(k)) =>
            /\ k = Len(calls)
            /\ its[i].pc = "done"
            /\ ~EndedCleanly(its[i])
            /\ Outcome(k).error = "ServiceUnavailable" => its[i].err = "ServiceUnavailable"
            /\ Outcome(k).error = "StopIteration" => its[i].err = "RuntimeError"
            /\ (Outcome(k).error = "StopAsyncIteration" /\ variant = "async") =>
                    its[i].err = "RuntimeError"
            /\ (Outcome(k).error = "StopAsyncIteration" /\ variant = "sync") =>
                    its[i].err = "StopAsyncIteration"
            /\ Outcome(k).error \in Errors

\* The second call raised ServiceUnavailable and the consumer got it.
C6_Witness ==
    \E i \in DOMAIN its :
        /\ its[i].status = "error"
        /\ its[i].err = "ServiceUnavailable"
        /\ Len(calls) = 2
        /\ Outcome(1).ok
        /\ Outcome(2).error = "ServiceUnavailable"

\* The response of the latest call that returned one; the response given to
\* the constructor when there is none.
LastFetched ==
    LET K == {k \in 1..Len(calls) : Returned(k)}
    IN IF K = {} THEN init_response
       ELSE Resp(Outcome(CHOOSE k \in K : \A j \in K : j <= k))

\* The responses the pager and its unfinished generators refer to: the
\* field self._response, and the loop variable `page` of __iter__/__aiter__.
HeldPages ==
    {response} \cup {its[i].page : i \in {j \in DOMAIN its :
                                           /\ its[j].kind = "items"
                                           /\ its[j].pc \in {"yielded", "fetching"}}}

\* C7: looking up on the pager a name that is not part of its own interface
\* (not an attribute __init__ set, not `pages`, not a method of its class or
\* of `object`) returns that field of the most recently fetched response:
\* the initial response before any advance, the k-th fetched response after
\* k successful fetches; a name the response does not have either raises
\* AttributeError.  The iteration method of the other class is such a name.
C7_AttributeDelegation ==
    /\ \A L \in {LastFetched} :
       \A name \in (OtherNames \cup {"__iter__", "__aiter__"}) \ Interface :
          GetAttr(name) = IF name \in DOMAIN L THEN L[name] ELSE "AttributeError"
    /\ OtherNames \cap Interface = {}
    /\ (IF variant = "sync" THEN "__aiter__" ELSE "__iter__") \notin Interface
    /\ its = <<>> => GetAttr("next_page_token") = init_response.next_page_token

\* After two successful fetches the lookup gives the second one's token,
\* which differs from the tokens of the two responses before it.
C7_Witness ==
    /\ Len(calls) = 2
    /\ Outcome(1).ok /\ Outcome(2).ok /\ Resolved(2)
    /\ GetAttr("next_page_token") = "def"
    /\ init_response.next_page_token = "abc"
    /\ Outcome(1).next_page_token = "abc"

\* C8: for a pager constructed with a single response whose token is empty,
\* `pages` yields exactly that response, item iteration exactly its items,
\* and the call method is never invoked.
C8_SinglePage ==
    init_response.next_page_token = "" =>
        /\ calls = <<>>
        /\ \A i \in DOMAIN its :
            /\ its[i].err = ""
            /\ its[i].pc # "fetching"
            /\ its[i].pc = "done" =>
                  /\ its[i].seen = <<init_response>>
                  /\ its[i].kind = "pages" => its[i].out = <<init_response>>
                  /\ its[i].kind = "items" => its[i].out = init_response.templates

\* The two items of a single page were delivered and the iteration ended,
\* with an outcome scripted that no call ever asked for.
C8_Witness ==
    \E i \in DOMAIN its :
        /\ init_response.next_page_token = ""
        /\ its[i].kind = "items"
        /\ its[i].pc = "done"
        /\ Len(its[i].out) = 2
        /\ Len(script) >= 1

\* C9: if the chain reaches a response with an empty token and no call
\* fails before that (the initial states of FairSpec), a consumer that keeps
\* advancing reaches the end of the sequence it iterates, pages or items.
C9_Termination ==
    <>(\E i \in DOMAIN its : EndedCleanly(its[i]))

\* An async iteration over a chain of three pages has reached its end.
C9_Witness ==
    \E i \in DOMAIN its :
        /\ variant = "async"
        /\ ChainLen = 3
        /\ its[i].pc = "done"
        /\ its[i].status = "end"

\* C10: laziness.  Construction and the delivery of the first page make no
\* call; the call that fetches page k+1 is made only once the consumer has
\* advanced past page k (for items: past every item of page k), so the calls
\* made never outnumber the pages delivered.
C10_Lazy ==
    /\ its = <<>> => calls = <<>>
    /\ \A i \in DOMAIN its :
        /\ Len(its[i].seen) = 0 => calls = <<>>
        /\ Len(its[i].seen) > 0 => Len(calls) <= Len(its[i].seen)
        /\ its[i].status = "value" => Len(calls) = Len(its[i].seen) - 1
        /\ its[i].kind = "pages" => Len(calls) <= Len(its[i].out)
        /\ its[i].kind = "items" => Len(its[i].out) >= ItemCount(Len(calls))

\* An async item iteration awaits its first call, made right after the two
\* items of the first page were delivered.
C10_Witness ==
    \E i \in DOMAIN its :
        /\ its[i].kind = "items"
        /\ its[i].pc = "fetching"
        /\ Len(calls) = 1
        /\ Len(its[i].out) = 2
        /\ Len(init_response.templates) = 2

\* C11: sync/async equivalence.  For the same construction arguments and the
\* same scripted call outcomes, after any number of consumer advances the
\* sync and the async pager have delivered the same pages and items, made the
\* same calls with the same requests and metadata, and ended the same way: a
\* failure surfaces at the same advance.  It is also the same error, unless
\* the call method raised StopAsyncIteration, which only the async class
\* turns into RuntimeError.  The pager that runs is compared with a pager
\* of the other class advanced as often.
C11_SyncAsyncEquivalent ==
    \A i \in DOMAIN its : its[i].pc # "fetching" =>
        \A A \in {Observe(Ctx(its[i]))} :
        \A B \in {Observe(RunTo(IF variant = "sync" THEN "async" ELSE "sync",
                                its[i].kind, its[i].adv))} :
            /\ [A EXCEPT !.err = ""] = [B EXCEPT !.err = ""]
            /\ (A.err = "") = (B.err = "")
            /\ A.err # B.err =>
                  /\ {A.err, B.err} = {"StopAsyncIteration", "RuntimeError"}
                  /\ Len(calls) \in DOMAIN script
                  /\ script[Len(calls)].error = "StopAsyncIteration"

\* An async pager made two calls and then its third call failed.
C11_Witness ==
    \E i \in DOMAIN its :
        /\ variant = "async"
        /\ its[i].pc = "done"
        /\ its[i].err # ""
        /\ Len(calls) >= 2
        /\ Len(its[i].out) >= 1

\* C12: one call in flight.  While a single task consumes an async pager, at
\* most one invocation of the call method is unresolved at any moment; it is
\* the latest call, the consuming task is suspended in the generator that
\* made it, and the generator's next step is the resolution of that call:
\* only after it may the generator start another call.  (The sync pager has
\* no call in flight between two steps.)
C12_OneCallInFlight ==
    /\ [](/\ Cardinality(inflight) <= 1
          /\ variant = "sync" => inflight = {}
          /\ \A k \in inflight :
                /\ k = Len(calls)
                /\ \E i \in DOMAIN its :
                      /\ its[i].pc = "fetching"
                      /\ its[i].status = "waiting"
                      /\ its[i].callno = k
                /\ \A i \in DOMAIN its : ~CanAdvance(its[i]))
    /\ [][inflight # {} => (inflight' \cap inflight = {}
                            /\ \A k \in inflight' : k > Len(calls))]_vars

\* The second call of an async pager is in flight, the first has resolved.
C12_Witness ==
    /\ variant = "async"
    /\ inflight = {2}
    /\ \E i \in DOMAIN its : its[i].pc = "fetching" /\ Len(its[i].out) >= 1

\* C13: metadata.  Every call receives exactly the metadata sequence given to
\* the constructor (the empty sequence when none was given), and the pager
\* never changes the metadata it holds.
C13_MetadataUnchanged ==
    /\ [](\A k \in 1..Len(calls) : calls[k].metadata = metadata)
    /\ [][metadata' = metadata]_vars

\* Two calls were made by a pager constructed with non-empty metadata.
C13_Witness ==
    /\ metadata # <<>>
    /\ Len(calls) = 2
    /\ calls[2].metadata = <<<<"k", "v">>>>

\* C14: one current response.  The pager holds one response, the latest one
\* fetched (the constructor's before any fetch): a step changes it only by
\* resolving a call that returned a response, to exactly that response, and a
\* call that fails leaves it as it was.  The pager and its running generator
\* refer to no other page: an earlier page that differs from the current
\* response is held nowhere.
C14_OneCurrentResponse ==
    /\ [](/\ response = LastFetched
          /\ HeldPages = {response}
          /\ \A i \in DOMAIN its : \A k \in 1..Len(its[i].seen) :
                its[i].seen[k] # response => its[i].seen[k] \notin HeldPages)
    /\ [][response' # response =>
            \E k \in 1..Len(calls') :
                /\ k > Len(calls) \/ k \in inflight
                /\ k \notin inflight'
                /\ Outcome(k).ok
                /\ response' = Resp(Outcome(k))]_vars

\* The first fetch replaced the constructor's response by a different one,
\* and the second call failed.
C14_Witness ==
    /\ Len(calls) = 2
    /\ Outcome(1).ok /\ Resolved(2) /\ ~Outcome(2).ok
    /\ response = Resp(Outcome(1))
    /\ response # init_response
    /\ \E i \in DOMAIN its : Len(its[i].seen) = 2 /\ its[i].err # ""

\* The number of calls whose outcome generator i takes in the step.
OutcomesTaken(i) ==
    (its'[i].ncalls - its[i].ncalls)
    + (IF its[i].pc = "fetching" THEN 1 ELSE 0)
    - (IF its'[i].pc = "fetching" THEN 1 ELSE 0)

\* C15 as stated: once a fetch has failed, the pager issues no further call.
C15_Original ==
    [][(\E i \in DOMAIN its : its[i].err # "") => calls' = calls]_vars

\* C15: the state machine of a fetch.  A call is made only while the current
\* response has a non-empty token; the step that takes its outcome leaves the
\* iterator either holding the new response, which is then the current one,
\* or failed with the current response the last one fetched before the
\* failing call.  A failed iterator is
\* finished: it delivers nothing more and issues no further call.  The pager
\* itself records no failure: a new iteration started on it makes calls
\* again.
C15_FailedIteratorStops ==
    [][\A i \in DOMAIN its :
          /\ its'[i].ncalls > its[i].ncalls => response.next_page_token # ""
          /\ (its[i].pc = "fetching" \/ its'[i].ncalls > its[i].ncalls) =>
                \/ its'[i].pc = "fetching"
                \/ /\ its'[i].pc = "done"
                   /\ its'[i].err # ""
                   /\ response' = IF OutcomesTaken(i) >= 2
                                  THEN Resp(Outcome(Len(calls') - 1))
                                  ELSE response
                \/ /\ its'[i].err = ""
                   /\ Outcome(Len(calls')).ok
                   /\ response' = Resp(Outcome(Len(calls')))
          /\ its[i].err # "" =>
                /\ its'[i].pc = "done"
                /\ its'[i].ncalls = its[i].ncalls
                /\ its'[i].out = its[i].out
                /\ its'[i].err = its[i].err]_vars

\* An iteration failed at its first call, and the next iteration on the same
\* pager made a call.
C15_Witness ==
    /\ Len(its) = 2
    /\ its[1].err = "ServiceUnavailable"
    /\ its[1].ncalls = 1
    /\ its[2].ncalls >= 1

\* The whole responses there are: the constructor's and the scripted ones.
WholeResponses == {init_response} \cup {Resp(script[k]) : k \in {j \in 1..Len(script) : script[j].ok}}

\* Nothing of a cancelled fetch is exposed: the step that cancels leaves the
\* current response and what the consumer has received as they were, and the
\* current response is always a whole response.
NoPartialPage ==
    /\ [](response \in WholeResponses)
    /\ [][\A i \in DOMAIN its :
            (its[i].pc = "fetching" /\ its'[i].err = "CancelledError") =>
                /\ response' = response
                /\ its'[i].out = its[i].out
                /\ its'[i].seen = its[i].seen]_vars

\* C16 as stated: no partial page, and after a cancellation the pager is not
\* usable any further: nothing is delivered and no call is made.
C16_Original ==
    /\ NoPartialPage
    /\ [][(\E i \in DOMAIN its : its[i].err = "CancelledError") =>
            /\ calls' = calls
            /\ \A j \in DOMAIN its : its'[j].out = its[j].out
            /\ Len(its') = Len(its)]_vars

\* C16: cancellation.  Cancelling the consuming task while an async fetch is
\* pending exposes no partial page; the cancelled iterator is finished with
\* CancelledError and neither delivers nor calls again; the pager is left as
\* it was before the fetch except that the request carries the token of the
\* cancelled call, and it stays usable: the next iteration starts with the
\* response held at the cancellation.
C16_CancelLeavesUsable ==
    /\ NoPartialPage
    /\ [][\A i \in DOMAIN its :
            /\ (its[i].pc = "fetching" /\ its'[i].err = "CancelledError") =>
                  /\ its'[i].pc = "done"
                  /\ calls' = calls
                  /\ request' = request
                  /\ request.page_token = response.next_page_token
                  /\ inflight' = inflight \ {its[i].callno}
            /\ its[i].err = "CancelledError" =>
                  /\ its'[i].ncalls = its[i].ncalls
                  /\ its'[i].out = its[i].out
                  /\ its'[i].pc = "done"]_vars
    /\ [](\A i \in DOMAIN its : \A j \in DOMAIN its :
            (j = i + 1 /\ its[i].err = "CancelledError" /\ its[j].seen # <<>>) =>
                its[j].seen[1] = its[i].seen[Len(its[i].seen)])

\* The first iteration was cancelled at its first fetch; the second iteration
\* on the same pager fetched and delivered a further page.
C16_Witness ==
    /\ Len(its) = 2
    /\ its[1].err = "CancelledError"
    /\ its[1].ncalls = 1
    /\ its[2].kind = "pages"
    /\ its[2].ncalls >= 1
    /\ Len(its[2].out) >= 2

\* C17: suspension points.  The async pager suspends the consuming task at
\* the await of a call and at no other point: a generator has suspended at
\* most once for every call it made (once for every call whose awaitable did
\* not complete at once), it waits exactly while its one call is in flight,
\* and a step that suspends is a step that starts a call.  Delivering the
\* first page, delivering a further item of the page held, and any step taken
\* while the current response has no token suspend nothing.  The sync pager
\* never suspends.
C17_SuspendsOnlyAtFetch ==
    /\ [](\A i \in DOMAIN its :
            /\ its[i].susp <= its[i].ncalls
            /\ variant = "sync" => its[i].susp = 0
            /\ its[i].status = "waiting" <=> its[i].pc = "fetching"
            /\ its[i].pc = "fetching" => inflight = {its[i].callno})
    /\ [][\A i \in DOMAIN its :
            /\ (its[i].pc = "start" /\ its[i].kind = "pages") =>
                  its'[i].susp = its[i].susp
            /\ (its[i].pc = "yielded" /\ its[i].kind = "items"
                    /\ its[i].idx < Len(its[i].page.templates)) =>
                  its'[i].susp = its[i].susp
            /\ response.next_page_token = "" => its'[i].susp = its[i].susp
            /\ its'[i].susp # its[i].susp =>
                  /\ variant = "async"
                  /\ its'[i].susp = its[i].susp + 1
                  /\ its'[i].ncalls > its[i].ncalls
                  /\ Len(calls') > Len(calls)
                  /\ its'[i].callno = Len(calls')
                  /\ its'[i].pc = "fetching"
                  /\ inflight' = {Len(calls')}]_vars

\* An async item iteration suspended twice, delivered items and ended.
C17_Witness ==
    \E i \in DOMAIN its :
        /\ variant = "async"
        /\ its[i].kind = "items"
        /\ its[i].susp = 2
        /\ Len(its[i].out) >= 2
        /\ EndedCleanly(its[i])

\* The fields that the request object passed to the k-th call has now: the
\* pager's held object has the pager's current fields, a copy would have kept
\* the fields it was called with.
ArgNow(k) == IF calls[k].obj = RequestObject(copies) THEN request ELSE calls[k].request

\* C18 as stated: every call receives a distinct request object, and the
\* request passed to an earlier call is not modified by a later advance.
C18_Original ==
    \A k \in 1..Len(calls) :
        /\ \A j \in 1..(k - 1) : calls[j].obj # calls[k].obj
        /\ ArgNow(k) = calls[k].request

\* C18: the request object.  The token is written into the one request
\* object the pager holds (what the request type's constructor returned at
\* construction: a copy of the caller's request with the message type) and
\* every call receives that same object: the request an
\* earlier call received is the object a later advance writes to, so it
\* shows the latest token.
C18_HeldRequestReused ==
    /\ \A k \in 1..Len(calls) :
          /\ calls[k].obj = (IF copies THEN HeldObject ELSE CallerObject)
          /\ ArgNow(k) = request
    /\ calls # <<>> => request = calls[Len(calls)].request

\* Two calls with different tokens: the object the first call received now
\* carries the second token.
C18_Witness ==
    /\ Len(calls) = 2
    /\ calls[1].request.page_token # calls[2].request.page_token
    /\ ArgNow(1).page_token = calls[2].request.page_token

\* C19: the other request fields.  The request of every call, and the request
\* the pager holds, have the fields of the request given to the constructor,
\* each with the constructor's value, except page_token.
C19_OnlyTokenChanges ==
    /\ DOMAIN request = DOMAIN caller_request
    /\ \A f \in DOMAIN caller_request \ {"page_token"} : request[f] = caller_request[f]
    /\ \A k \in 1..Len(calls) :
          /\ DOMAIN calls[k].request = DOMAIN caller_request
          /\ \A f \in DOMAIN caller_request \ {"page_token"} :
                calls[k].request[f] = caller_request[f]

\* The second call carries a token other than the constructor's and the
\* constructor's parent and page size.
C19_Witness ==
    /\ Len(calls) = 2
    /\ calls[2].request.page_token # caller_request.page_token
    /\ calls[2].request.parent = "projects/p"
    /\ calls[2].request.page_size = 2

\* C24: the caller's request.  The pager holds what the request type's
\* constructor made of the caller's request, a copy with the message type,
\* and writes tokens only to that: the request object given to the
\* constructor is never written by the pager, and whatever tokens the pager
\* has put into its own request, the caller's request has the fields it was
\* given, and its original page_token.
C24_CallerRequestUntouched ==
    /\ [](copies => caller_request = CallerRequest /\ caller_request.page_token = "p0")
    /\ [][copies => caller_request' = caller_request]_vars

\* After two calls the pager's request carries a fetched token and the
\* caller's request its own.
C24_Witness ==
    /\ copies
    /\ Len(calls) = 2
    /\ request.page_token \in {"abc", "def"}
    /\ caller_request.page_token = "p0"

\* The last page generator g got.
LastSeen(g) == g.seen[Len(g.seen)]

\* C25: where an iteration starts.  Every new page or item iteration starts
\* at the pager's current response, not at the initial one: the first page
\* an iteration gets is the current response; once an iteration has ended
\* cleanly after n pages, a later iteration gets exactly the n-th page
\* (an item iteration exactly its items) and makes no call; and a page is
\* only ever yielded as the current response, every page after an
\* iteration's first being the response of a call whose outcome is taken in
\* that step, so a superseded page is never yielded again.
C25_StartsAtCurrent ==
    /\ [](\A i \in DOMAIN its : \A j \in DOMAIN its :
            (i < j /\ EndedCleanly(its[i])) =>
                /\ its[j].ncalls = 0
                /\ Len(its[j].seen) <= 1
                /\ its[j].seen # <<>> => its[j].seen[1] = LastSeen(its[i])
                /\ its[j].pc = "done" =>
                    /\ its[j].seen = <<LastSeen(its[i])>>
                    /\ its[j].err = ""
                    /\ its[j].out = IF its[j].kind = "pages" THEN <<LastSeen(its[i])>>
                                     ELSE LastSeen(its[i]).templates)
    /\ [][\A i \in DOMAIN its :
            Len(its'[i].seen) > Len(its[i].seen) =>
                /\ its[i].pc = "start" => its'[i].seen[1] = response
                /\ LastSeen(its'[i]) = response'
                /\ \A q \in (Len(its[i].seen) + 1)..Len(its'[i].seen) :
                    (q > 1) => \E k \in 1..Len(calls') :
                        /\ k > Len(calls) \/ k \in inflight
                        /\ k \notin inflight'
                        /\ its'[i].seen[q] = Resp(Outcome(k))]_vars

\* A pages iteration fetched two pages after the first and ended; a second
\* iteration, by items, has ended too.
C25_Witness ==
    /\ Len(its) = 2
    /\ its[1].kind = "pages" /\ EndedCleanly(its[1]) /\ Len(its[1].seen) = 3
    /\ its[2].kind = "items" /\ its[2].pc = "done"
    /\ Len(its[2].out) = 1
    /\ response # init_response

\* The k-th call, the last one made, has failed.
FailedFetch(k) == k = Len(calls) /\ k >= 1 /\ ~Outcome(k).ok /\ Resolved(k)

\* C26: a failed fetch.  After the call method has failed, the pager still
\* holds the last successfully fetched response (the one whose token the
\* failed call carried) and attribute lookup returns its fields, while the
\* held request's page_token is the token of the failed fetch and no longer
\* the one the request had before.
C26_FailedFetchState ==
    \A k \in 1..Len(calls) : FailedFetch(k) =>
        /\ response = ChainPage(k)
        /\ GetAttr("next_page_token") = ChainPage(k).next_page_token
        /\ GetAttr("templates") = ChainPage(k).templates
        /\ request.page_token = calls[k].request.page_token
        /\ request.page_token = ChainPage(k).next_page_token
        /\ request.page_token # ""
        /\ request.page_token # CallerRequest.page_token
        /\ \A i \in DOMAIN its : its[i].err # ""

\* The second call failed: the pager holds the response of the first call,
\* and the request the token "def" that this response carried, not the token
\* "abc" of the first call.
C26_Witness ==
    /\ FailedFetch(2)
    /\ response = Resp(Outcome(1))
    /\ response.templates # <<>>
    /\ calls[1].request.page_token = "abc"
    /\ request.page_token = "def"

\* The calls made by iterations 1..i.
RECURSIVE CallsUpTo(_)
CallsUpTo(i) == IF i <= 0 THEN 0 ELSE CallsUpTo(i - 1) + its[i].ncalls

\* Iteration i ended because its last call failed.
FetchFailed(i) ==
    /\ its[i].pc = "done"
    /\ its[i].err \notin {"", "CancelledError"}
    /\ its[i].ncalls >= 1

\* C27: iterating again after a failed fetch.  The iteration started after
\* one whose fetch failed first gets the last successfully fetched page
\* again; advanced further it invokes the call method with the token the
\* failed call carried; and if that call returns a response, the response is
\* its next page and the iteration goes on from there, its next call
\* carrying that response's token.
C27_RetryAfterFailure ==
    \A i \in DOMAIN its : (i + 1 \in DOMAIN its /\ FetchFailed(i)) =>
        LET j == i + 1
            f == CallsUpTo(i)
        IN /\ ~Outcome(f).ok
           /\ its[j].seen # <<>> =>
                /\ its[j].seen[1] = LastSeen(its[i])
                /\ its[j].seen[1].next_page_token = calls[f].request.page_token
           /\ its[j].pc = "done" => its[j].ncalls >= 1
           /\ its[j].ncalls >= 1 =>
                /\ Len(its[j].seen) >= 1
                /\ calls[f + 1].request.page_token = calls[f].request.page_token
           /\ (its[j].ncalls >= 1 /\ Outcome(f + 1).ok /\ (f + 1) \notin inflight
                    /\ its[j].err # "CancelledError") =>
                /\ Len(its[j].seen) >= 2
                /\ its[j].seen[2] = Resp(Outcome(f + 1))
                /\ its[j].ncalls >= 2 =>
                    calls[f + 2].request.page_token = Outcome(f + 1).next_page_token
                /\ (its[j].pc = "done" /\ Outcome(f + 1).next_page_token = "") =>
                    EndedCleanly(its[j])

\* The first call failed; a second iteration got the constructor's page
\* again, made the call again with the same token, got its response and
\* went on to a third call with the token of that response.
C27_Witness ==
    /\ Len(its) = 2
    /\ FetchFailed(1) /\ its[1].ncalls = 1
    /\ its[2].seen = <<init_response, Resp(Outcome(2))>>
    /\ Len(calls) = 3
    /\ calls[2].request.page_token = calls[1].request.page_token
    /\ calls[3].request.page_token = Outcome(2).next_page_token
    /\ calls[3].request.page_token # calls[2].request.page_token

\* Generator g is suspended where resuming it re-enters the while loop of
\* pages: at the yield of a page, or at the yield of a page's last template.
AtLoop(g) ==
    /\ g.pc = "yielded"
    /\ g.kind = "items" => g.idx >= Len(g.page.templates)

\* Every response of the chain carries a token: the chain has no last page.
Endless ==
    /\ init_response.next_page_token # ""
    /\ \A k \in 1..Len(script) : script[k].ok /\ script[k].next_page_token # ""

\* C28: the end of an iteration.  An iteration ends cleanly only when the
\* current response's token is empty.  While the current response carries a
\* token, resuming the loop makes a call with that token, whether or not the
\* token was sent before (there is no cycle detection); so over a chain in
\* which every response carries a token, repeated or not, the iteration
\* never ends cleanly and makes a call for every response the chain can
\* give, as many as there are.
C28_EndsOnlyAtEmptyToken ==
    /\ [](\A i \in DOMAIN its :
            /\ EndedCleanly(its[i]) =>
                response.next_page_token = "" /\ LastSeen(its[i]).next_page_token = ""
            /\ Endless =>
                /\ ~EndedCleanly(its[i])
                /\ its[i].pc = "done" => Len(calls) = Len(script) + 1
                /\ \A k \in 1..Len(calls) :
                    calls[k].request.page_token = ChainPage(k).next_page_token)
    /\ [][\A i \in DOMAIN its :
            (AtLoop(its[i]) /\ its'[i] # its[i] /\ response.next_page_token # "") =>
                /\ Len(calls') > Len(calls)
                /\ calls'[Len(calls) + 1].request.page_token = response.next_page_token]_vars

\* Every response carries the token "abc": three calls were made with it,
\* as many as the chain could answer and one more.
C28_Witness ==
    /\ Endless
    /\ Len(script) = 2
    /\ Len(calls) = 3
    /\ \A k \in 1..3 : calls[k].request.page_token = "abc"
    /\ \E i \in DOMAIN its : its[i].pc = "done" /\ its[i].err # ""

\* The response current when the k-th call is made: that of the latest
\* earlier call that returned one, the constructor's if there is none.  A
\* call that raised, or whose await was cancelled, assigned nothing.  (No
\* call is made while another one is awaited, so whether an earlier call
\* has returned does not change after the k-th call is made.)
RECURSIVE CurrentAt(_)
CurrentAt(k) ==
    IF k <= 1 THEN init_response
    ELSE IF Returned(k - 1) THEN Resp(Outcome(k - 1)) ELSE CurrentAt(k - 1)

\* C29 as stated: the k-th call carries the token of the response returned
\* by the (k-1)-th call, of the initial response for k = 1.
C29_Original ==
    \A k \in 1..Len(calls) :
        /\ k > 1 => Outcome(k - 1).ok
        /\ calls[k].request.page_token = ChainPage(k).next_page_token

\* C29 (amended): interleaved iterators of a sync pager.  However the
\* iterators of one instance are created and advanced, the k-th call carries
\* the next_page_token of the response returned by the latest earlier call
\* that returned one (of the initial response if there is none): as long as
\* no call fails, the calls follow the token chain, no position of it sent
\* twice or skipped; after a failed call the next call carries the failed
\* call's token again.
C29_CallsFollowCurrent ==
    \A k \in 1..Len(calls) :
        /\ calls[k].request.page_token = CurrentAt(k).next_page_token
        /\ calls[k].request.page_token # ""
        /\ (\A j \in 1..(k - 1) : Returned(j)) =>
                calls[k].request.page_token = ChainPage(k).next_page_token
        /\ (k > 1 /\ ~Returned(k - 1)) =>
                calls[k].request.page_token = calls[k - 1].request.page_token

\* Two page iterators were advanced in turn: each made one call, the second
\* call carrying the token of the first call's response; the second
\* iterator never got the page the first one fetched.
C29_Witness ==
    /\ Len(its) = 2 /\ Len(calls) = 2
    /\ its[1].ncalls = 1 /\ its[2].ncalls = 1
    /\ Outcome(1).ok /\ Outcome(2).ok
    /\ calls[1].request.page_token = "abc"
    /\ calls[2].request.page_token = "def"
    /\ its[1].seen = <<init_response, Resp(Outcome(1))>>
    /\ its[2].seen = <<init_response, Resp(Outcome(2))>>

\* A page iteration of a pager like this one, over the same chain, advanced
\* until it is over.
PagesRun == RunTo(variant, "pages", Len(script) + 2)

\* C30: the calls of item iteration.  An item iteration makes the calls a
\* page iteration over the same chain makes: at any moment the calls made
\* are the first calls of the page iteration, with the same requests in the
\* same order, and when the item iteration is over they are all of them and
\* it ended as the page iteration ends; the tokens are the chain's, whatever
\* the pages hold, and over a chain of n pages the finished iteration has
\* made exactly n-1 calls.
C30_ItemsCallLikePages ==
    \A i \in DOMAIN its : its[i].kind = "items" =>
        \E P \in {PagesRun} :
            /\ Len(calls) <= Len(P.calls)
            /\ \A k \in 1..Len(calls) :
                /\ calls[k] = P.calls[k]
                /\ calls[k].request.page_token = ChainPage(k).next_page_token
            /\ its[i].pc = "done" =>
                /\ calls = P.calls
                /\ its[i].err = P.it.err
                /\ ChainLen > 0 => Len(calls) = ChainLen - 1 /\ EndedCleanly(its[i])

\* An item iteration over three pages holding two, none and one template
\* is over after two calls.
C30_Witness ==
    \E i \in DOMAIN its :
        /\ its[i].kind = "items"
        /\ EndedCleanly(its[i])
        /\ ChainLen = 3
        /\ Len(calls) = 2
        /\ Len(ChainPage(1).templates) = 2
        /\ Len(ChainPage(2).templates) = 0
        /\ Len(ChainPage(3).templates) = 1
        /\ Len(its[i].out) = 3

====
